---- MODULE Spec2Model ----
(***************************************************************************)
(* Decentralized Sun Tzu Swarm: the per-agent decision scheduler, the tick *)
(* engine and the decision-oracle client of src/App.tsx and the oracle     *)
(* service (src/unnamed/part_000).                                         *)
(*                                                                         *)
(* React state is modelled as committed at the end of the handler that     *)
(* set it: every handler is followed at once by the re-render that         *)
(* refreshes the refs (blueDronesRef, redDronesRef, simulationStateRef)    *)
(* and runs the cleanup and the body of the main-loop effect when          *)
(* simulationState changed.  Every behaviour of the model is therefore a   *)
(* behaviour of the program (the schedule in which React renders before    *)
(* the next task runs).                                                    *)
(*                                                                         *)
(* Positions are kept on the integer lattice.  The layouts and the         *)
(* oracle's decisions are enumerated so that every motion is along a       *)
(* coordinate axis, where (dx / distance) * DRONE_SPEED is exactly -1, 0   *)
(* or 1 and Math.sqrt is exact.                                            *)
(***************************************************************************)
EXTENDS Integers, Sequences, FiniteSets, TLC

VARIABLES
    simulationState,   \* useState<SimulationState>, equal to simulationStateRef.current
    drones,            \* blueDrones and redDrones, keyed by drone id
    thinkingDrones,    \* thinkingDrones.current: the re-entrancy guard
    droneThinkTimers,  \* ids whose droneThinkTimers entry is a timer still pending
    pendingTimers,     \* id -> number of think timers set and neither fired nor cleared
    inFlight,          \* id -> the getDroneAction calls awaited, as [fresh, stale] counts
    victoryLogs,       \* the winners named by the victory entries of logs, in append order
    tickCount,         \* number of simulationInterval firings (bounded by the guards)
    startCount,        \* number of times the Start button set Running (bounded)
    callCount,         \* number of getDroneAction calls started (bounded)
    lastOp,            \* history: the last handler that ran and what it saw
    world0,            \* history: the world the tick-engine run started from
    oracle,            \* the state of one getDroneAction call of the oracle client
    logs,              \* useState<LogEntry[]>, as the event-log specification tracks it
    currentPrinciple,  \* useState<string>: the guiding principle
    rotations,         \* history: principleInterval firings since construction or reset
    pendingUpdates,    \* setBlueDrones / setRedDrones updates queued and not yet rendered
    mover              \* one Moving drone of the movement specification, on a finer grid

vars == <<simulationState, drones, thinkingDrones, droneThinkTimers, pendingTimers,
          inFlight, victoryLogs, tickCount, startCount, callCount, lastOp, world0, oracle,
          logs, currentPrinciple, rotations, pendingUpdates, mover>>

\* the log and the principle, which only the reset and the rotation clock write here
logVars == <<logs, currentPrinciple, rotations>>

----------------------------------------------------------------------------
(* Program constants, src/App.tsx:8-14 and src/unnamed/part_000:170.       *)
SIMULATION_WIDTH == 800
SIMULATION_HEIGHT == 600
DRONE_COUNT_PER_SWARM == 5
DRONE_SPEED == 1
DRONE_HEALTH == 100
ATTACK_RANGE == 75
ATTACK_DAMAGE == 5
MAX_RETRIES == 3
LogSlice == 100       \* prev.slice(-100) of addLog

(* Bounds of the model.                                                    *)
NumBlue == 2          \* blue drones modelled: b-drone-0 .. b-drone-(NumBlue-1)
NumRed == 1           \* red drones modelled
MaxTicks == 2         \* tick firings explored by the scheduler specification
MaxStarts == 2        \* presses of Start explored
MaxCalls == 2         \* getDroneAction calls explored
TickHorizon == 21     \* tick firings explored by the tick-engine specification
NumPrinciples == 3    \* entries of ART_OF_WAR_PRINCIPLES modelled
MaxRotations == 104   \* principleInterval firings explored
MaxPending == 3       \* state updates queued between two renders
MoveGrid == 2         \* grid steps per unit of length in the movement specification
MoveSpan == 12        \* largest coordinate, in grid steps, of the movement specification
MoveTicks == 8        \* tick firings explored by the movement specification
ThinkTicks == 1       \* tick firings explored by the thinking-loop specification

----------------------------------------------------------------------------
(* Values.                                                                 *)
Null == <<"null", 0>>                 \* targetId: null
NoSuchDrone == <<"x", 0>>             \* an id that names no drone of either roster
NoPosition == [x |-> 0 - 1, y |-> 0 - 1]   \* stands for an action that carries no position
NoMover == <<>>                       \* no drone is followed by the movement specification

DroneId(swarmId, i) == <<IF swarmId = "blue" THEN "b" ELSE "r", i>>
SwarmOf(id) == IF id[1] = "b" THEN "blue" ELSE "red"
BlueIds == {DroneId("blue", i) : i \in 0..(NumBlue - 1)}
RedIds == {DroneId("red", i) : i \in 0..(NumRed - 1)}
Ids == BlueIds \cup RedIds

Vec(x, y) == [x |-> x, y |-> y]
Max(a, b) == IF a >= b THEN a ELSE b
Abs(a) == IF a >= 0 THEN a ELSE 0 - a

\* dx * dx + dy * dy, the argument of Math.sqrt
DistSq(p, q) == (q.x - p.x) * (q.x - p.x) + (q.y - p.y) * (q.y - p.y)

\* Math.sqrt(dx * dx + dy * dy) where it is an integer
Distance(p, q) ==
    IF q.x = p.x THEN Abs(q.y - p.y)
    ELSE IF q.y = p.y THEN Abs(q.x - p.x)
    ELSE CHOOSE n \in 0..(Abs(q.x - p.x) + Abs(q.y - p.y)) : n * n = DistSq(p, q)

\* position += (d / distance) * speed, along a coordinate axis; speed is DRONE_SPEED
\* in the unit of the coordinates
StepBy(p, q, speed) ==
    LET dx == q.x - p.x
        dy == q.y - p.y
        distance == Distance(p, q)
    IN  Vec(p.x + (dx * speed) \div distance,
            p.y + (dy * speed) \div distance)

\* position += (d / distance) * DRONE_SPEED on the lattice of whole units
StepToward(p, q) == StepBy(p, q, DRONE_SPEED)

----------------------------------------------------------------------------
(* createInitialSwarm, restricted to the modelled indices.                 *)
InitialDrone(swarmId, i) ==
    LET y_base == IF swarmId = "blue" THEN SIMULATION_HEIGHT - 100 ELSE 100
        x_base == SIMULATION_WIDTH \div 2 - (DRONE_COUNT_PER_SWARM * 60) \div 2 + i * 60
        pos == Vec(x_base, y_base)
    IN  [swarmId |-> swarmId, position |-> pos, status |-> "Idle",
         targetPosition |-> pos, health |-> DRONE_HEALTH, targetId |-> Null]

createInitialSwarm == [id \in Ids |-> InitialDrone(SwarmOf(id), id[2])]

----------------------------------------------------------------------------
(* The action loop, src/App.tsx:292-360.                                   *)

\* iteration order of nextDronesState: blue roster, then red roster
TickOrder ==
    [k \in 1..(NumBlue + NumRed) |->
        IF k <= NumBlue THEN DroneId("blue", k - 1) ELSE DroneId("red", k - 1 - NumBlue)]

\* mutant: the damage without the clamp at 0
DamagedHealthUnclamped(h) == h - ATTACK_DAMAGE

\* target.health = Math.max(0, target.health - ATTACK_DAMAGE)
DamagedHealth(h) == Max(0, h - ATTACK_DAMAGE)

\* mutant: the kill that leaves the attacker Attacking its disabled target
StrikeKeepsAttacking(next, id, tid) ==
    LET h == DamagedHealth(next[tid].health)
        hit == [next EXCEPT ![tid].health = h]
    IN  IF h = 0 THEN [hit EXCEPT ![tid].status = "Disabled"] ELSE hit

\* mutant: the kill that takes the health to 0 and leaves the target in the fight
StrikeLeavesTargetActive(next, id, tid) ==
    LET h == DamagedHealth(next[tid].health)
        hit == [next EXCEPT ![tid].health = h]
    IN  IF h = 0 THEN [hit EXCEPT ![id].status = "Idle", ![id].targetId = Null] ELSE hit

\* mutant: the kill after which the attack the target had under way still lands
StrikeAnswered(next, id, tid) ==
    LET h == DamagedHealth(next[tid].health)
        hit == [next EXCEPT ![tid].health = h]
        down == [hit EXCEPT ![tid].status = "Disabled", ![id].status = "Idle",
                            ![id].targetId = Null]
        back == DamagedHealth(next[id].health)
    IN  IF h # 0 THEN hit
        ELSE IF next[tid].status = "Attacking" /\ next[tid].targetId = id
        THEN [down EXCEPT ![id].health = back,
                          ![id].status = IF back = 0 THEN "Disabled" ELSE @]
        ELSE down

\* the in-range branch of an Attacking drone, lines 312-324
Strike(next, id, tid) ==
    LET h == DamagedHealth(next[tid].health)
        hit == [next EXCEPT ![tid].health = h]
    IN  IF h = 0
        THEN LET down == [hit EXCEPT ![tid].status = "Disabled"]
             IN  [down EXCEPT ![id].status = "Idle", ![id].targetId = Null]
        ELSE hit

\* the target failed to resolve, lines 325-328
Demote(next, id) == [next EXCEPT ![id].status = "Idle", ![id].targetId = Null]

\* mutant: the range test with the boundary on the wrong side
OutOfRangeAtBoundary(p, q) == DistSq(p, q) >= ATTACK_RANGE * ATTACK_RANGE

\* distance > ATTACK_RANGE
OutOfRange(p, q) == DistSq(p, q) > ATTACK_RANGE * ATTACK_RANGE

\* mutant: the Moving branch without the snap, which steps on whatever the distance
MoveDroneNoSnap(drone, speed) ==
    IF drone.position = drone.targetPosition THEN [drone EXCEPT !.status = "Idle"]
    ELSE [drone EXCEPT !.position = StepBy(drone.position, drone.targetPosition, speed)]

\* the Moving branch, lines 330-342: distance < DRONE_SPEED snaps to the target and
\* sets Idle, else the drone steps by DRONE_SPEED
MoveDrone(drone, speed) ==
    IF DistSq(drone.position, drone.targetPosition) < speed * speed
    THEN [drone EXCEPT !.position = drone.targetPosition, !.status = "Idle"]
    ELSE [drone EXCEPT !.position = StepBy(drone.position, drone.targetPosition, speed)]

\* one iteration of the for loop over nextDronesState.values(), lines 298-343
ProcessDrone(next, id) ==
    LET drone == next[id] IN
    IF drone.status = "Disabled" THEN next
    ELSE IF drone.status = "Attacking" /\ drone.targetId # Null THEN
        IF drone.targetId \in DOMAIN next /\ next[drone.targetId].status # "Disabled"
        THEN IF OutOfRange(drone.position, next[drone.targetId].position)
             THEN [next EXCEPT ![id].position =
                       StepToward(drone.position, next[drone.targetId].position)]
             ELSE Strike(next, id, drone.targetId)
        ELSE Demote(next, id)
    ELSE IF drone.status = "Moving" THEN [next EXCEPT ![id] = MoveDrone(drone, DRONE_SPEED)]
    ELSE next

\* the world after the first k drones of the order were processed
RECURSIVE Processed(_, _)
Processed(world, k) ==
    IF k = 0 THEN world ELSE ProcessDrone(Processed(world, k - 1), TickOrder[k])

\* newBlue and newRed, committed by setBlueDrones / setRedDrones
TickWorld(world) == Processed(world, NumBlue + NumRed)

Alive(world, swarmId) ==
    \E id \in DOMAIN world : SwarmOf(id) = swarmId /\ world[id].status # "Disabled"

\* !aliveBlue || !aliveRed
BattleOver(world) == ~Alive(world, "blue") \/ ~Alive(world, "red")

\* const winner = aliveBlue ? "Blue Swarm" : "Red Swarm"
Winner(world) == IF Alive(world, "blue") THEN "Blue Swarm" ELSE "Red Swarm"

----------------------------------------------------------------------------
(* The thinking loop and runDroneLogic, src/App.tsx:189-257 and 363-376.   *)

\* the decisions getDroneAction can settle with: a stratagem, null, or a throw
MoveRows == {176}
Decisions(world, id) ==
    {[type |-> "MOVE", position |-> Vec(world[id].position.x, y), target_id |-> Null] :
        y \in MoveRows}
    \cup {[type |-> "ATTACK", position |-> NoPosition, target_id |-> t] :
            t \in {e \in DOMAIN world : world[e].position.x = world[id].position.x}
                  \cup {NoSuchDrone}}
    \cup {[type |-> k, position |-> NoPosition, target_id |-> Null] :
            k \in {"HOLD", "null", "throw"}}

\* mutant: the loop that sets no timer after an attempt
RescheduledNever(timers, id, running) == timers

\* mutant: the update spread over every drone of the array
updateDroneIntentEveryDrone(world, droneId, updates) ==
    [d \in DOMAIN world |->
        IF SwarmOf(d) = SwarmOf(droneId)
        THEN [f \in DOMAIN world[d] |->
                 IF f \in DOMAIN updates THEN updates[f] ELSE world[d][f]]
        ELSE world[d]]

\* updateDroneIntent(droneId, updates): drones.map(d => d.id === droneId ? {...d, ...updates} : d)
updateDroneIntent(world, droneId, updates) ==
    [d \in DOMAIN world |->
        IF d = droneId
        THEN [f \in DOMAIN world[d] |->
                 IF f \in DOMAIN updates THEN updates[f] ELSE world[d][f]]
        ELSE world[d]]

\* the guard of runDroneLogic, line 190; the drone the timer closure holds was not
\* Disabled when thinkingLoop captured it, so drone.status never is
Refused(id) == simulationState # "Running" \/ id \in thinkingDrones

\* mutant: the target looked up in both rosters
ValidTargetAnySwarm(world, id, targetId) ==
    /\ targetId # Null
    /\ \E e \in DOMAIN world : world[e].status # "Disabled" /\ e = targetId

\* mutant: the target looked up in the whole enemy roster, Disabled drones too
ValidTargetAnyStatus(world, id, targetId) ==
    /\ targetId # Null
    /\ \E e \in DOMAIN world : SwarmOf(e) # SwarmOf(id) /\ e = targetId

\* activeEnemiesNow.some(e => e.id === targetId), lines 229-231
ValidTarget(world, id, targetId) ==
    /\ targetId # Null
    /\ \E e \in DOMAIN world :
          /\ SwarmOf(e) # SwarmOf(id)
          /\ world[e].status # "Disabled"
          /\ e = targetId

\* what the continuation after the await writes, lines 213-253
ApplyDecision(world, id, decision) ==
    IF simulationState # "Running" THEN world
    ELSE IF world[id].status = "Disabled" THEN world
    ELSE IF decision.type = "MOVE"
        THEN updateDroneIntent(world, id,
                 [status |-> "Moving", targetPosition |-> decision.position,
                  targetId |-> Null])
    ELSE IF decision.type = "ATTACK"
        THEN IF ValidTarget(world, id, decision.target_id)
             THEN updateDroneIntent(world, id,
                      [status |-> "Attacking", targetId |-> decision.target_id])
             ELSE updateDroneIntent(world, id, [status |-> "Idle"])
    ELSE IF decision.type = "HOLD"
        THEN updateDroneIntent(world, id, [status |-> "Idle", targetId |-> Null])
    ELSE updateDroneIntent(world, id, [status |-> "Idle"])

\* the types of the entries the continuation after the await passes to addLog, in
\* order, lines 213-253
DecisionLogs(world, id, decision) ==
    IF simulationState # "Running" THEN <<>>
    ELSE IF world[id].status = "Disabled" THEN <<>>
    ELSE IF decision.type \in {"MOVE", "HOLD"} THEN <<"Stratagem">>
    ELSE IF decision.type = "ATTACK"
        THEN IF ValidTarget(world, id, decision.target_id)
             THEN <<"Stratagem">> ELSE <<"Stratagem", "Error">>
    ELSE <<"Error">>

\* getDroneAction rejects: the decision the catch of runDroneLogic handles
Thrown == [type |-> "throw", position |-> NoPosition, target_id |-> Null]

\* thinkingLoop(drone) for a drone captured not Disabled: window.setTimeout and
\* droneThinkTimers.current.set(drone.id, timerId), when the simulation is Running
Rescheduled(timers, id, running) ==
    IF running THEN [timers EXCEPT ![id] = @ + 1] ELSE timers

\* droneThinkTimers.current.forEach(clearTimeout); droneThinkTimers.current.clear()
ClearedTimers ==
    [id \in Ids |-> IF id \in droneThinkTimers THEN pendingTimers[id] - 1
                    ELSE pendingTimers[id]]

\* history only: the calls in flight when the simulation leaves Running, or when
\* their drone is Disabled, are marked stale
AllStale(calls) == [id \in Ids |-> [fresh |-> 0, stale |-> calls[id].fresh + calls[id].stale]]
StaleWhereDisabled(calls, world) ==
    [id \in Ids |-> IF world[id].status = "Disabled" THEN AllStale(calls)[id] ELSE calls[id]]

InFlightCount(id) == inFlight[id].fresh + inFlight[id].stale

----------------------------------------------------------------------------
(* The event log and the guiding principle, src/App.tsx:145-146, 169-177   *)
(* and 379-387.  The list ART_OF_WAR_PRINCIPLES is imported from           *)
(* ./constants: a fixed ordered list of distinct strings.                  *)
ART_OF_WAR_PRINCIPLES == [i \in 1..NumPrinciples |-> <<"principle", i>>]

\* ART_OF_WAR_PRINCIPLES.indexOf(p), 0-based, -1 when p is no entry
indexOf(p) ==
    IF \E i \in 1..NumPrinciples : ART_OF_WAR_PRINCIPLES[i] = p
    THEN (CHOOSE i \in 1..NumPrinciples :
             /\ ART_OF_WAR_PRINCIPLES[i] = p
             /\ \A j \in 1..(i - 1) : ART_OF_WAR_PRINCIPLES[j] # p) - 1
    ELSE 0 - 1

\* mutant: the index that does not wrap
nextIndexSaturating(p) ==
    IF indexOf(p) + 1 < NumPrinciples THEN indexOf(p) + 1 ELSE indexOf(p)

\* const nextIndex = (currentIndex + 1) % ART_OF_WAR_PRINCIPLES.length
nextIndex(p) == (indexOf(p) + 1) % NumPrinciples

\* ART_OF_WAR_PRINCIPLES[nextIndex]
newPrinciple(p) == ART_OF_WAR_PRINCIPLES[nextIndex(p) + 1]

\* prev.slice(-n): the last n entries of prev, all of them when there are fewer
SliceLast(prev, n) ==
    IF Len(prev) <= n THEN prev ELSE SubSeq(prev, Len(prev) - n + 1, Len(prev))

\* setLogs(prev => [...prev.slice(-100), entry])
addLog(prev, entry) == Append(SliceLast(prev, LogSlice), entry)

LogEntry(type, author, message) == [type |-> type, author |-> author, message |-> message]

----------------------------------------------------------------------------
(* The handlers.                                                           *)

\* the Start button while not Running, line 421, and the effect body, lines 286-387
StartSimulation ==
    /\ simulationState # "Running"
    /\ startCount < MaxStarts
    /\ simulationState' = "Running"
    /\ startCount' = startCount + 1
    /\ pendingTimers' = [id \in Ids |->
                            IF drones[id].status # "Disabled"
                            THEN pendingTimers[id] + 1 ELSE pendingTimers[id]]
    /\ droneThinkTimers' = droneThinkTimers \cup {id \in Ids : drones[id].status # "Disabled"}
    /\ lastOp' = [op |-> "start"]
    /\ UNCHANGED <<drones, thinkingDrones, inFlight, victoryLogs, tickCount, callCount, world0, oracle>>
    /\ UNCHANGED <<logVars, pendingUpdates, mover>>

\* the same button while Running, and the effect cleanup, lines 389-394
PauseSimulation ==
    /\ simulationState = "Running"
    /\ simulationState' = "Paused"
    /\ pendingTimers' = ClearedTimers
    /\ droneThinkTimers' = {}
    /\ inFlight' = AllStale(inFlight)
    /\ lastOp' = [op |-> "pause"]
    /\ UNCHANGED <<drones, thinkingDrones, victoryLogs, tickCount, startCount, callCount, world0, oracle>>
    /\ UNCHANGED <<logVars, pendingUpdates, mover>>

\* resetSimulation, lines 260-270
ResetSimulation ==
    /\ simulationState' = "Stopped"
    /\ drones' = createInitialSwarm
    /\ victoryLogs' = <<>>
    /\ pendingTimers' = ClearedTimers
    /\ droneThinkTimers' = {}
    /\ thinkingDrones' = {}
    /\ inFlight' = AllStale(inFlight)
    /\ logs' = addLog(<<>>, LogEntry("Info", "System", "Simulation reset"))
    /\ currentPrinciple' = ART_OF_WAR_PRINCIPLES[1]
    /\ rotations' = 0
    /\ lastOp' = [op |-> "reset"]
    /\ UNCHANGED <<tickCount, startCount, callCount, world0, oracle, pendingUpdates, mover>>

\* a think timer fires: runDroneLogic(drone) up to its await, lines 189-211, or its
\* early return followed by thinkingLoop(drone), lines 369-371
\* counted: the call started is counted against MaxCalls
TimerHandler(id, registered, counted) ==
    /\ pendingTimers[id] > 0
    /\ IF registered THEN id \in droneThinkTimers
       ELSE pendingTimers[id] > (IF id \in droneThinkTimers THEN 1 ELSE 0)
    /\ LET fired == [pendingTimers EXCEPT ![id] = @ - 1]
           map == IF registered THEN droneThinkTimers \ {id} ELSE droneThinkTimers
       IN  IF Refused(id)
           THEN /\ pendingTimers' = Rescheduled(fired, id, simulationState = "Running")
                /\ droneThinkTimers' =
                       IF simulationState = "Running" THEN map \cup {id} ELSE map
                /\ UNCHANGED <<drones, thinkingDrones, inFlight, callCount>>
           ELSE /\ IF counted
                   THEN callCount < MaxCalls /\ callCount' = callCount + 1
                   ELSE UNCHANGED callCount
                /\ pendingTimers' = fired
                /\ droneThinkTimers' = map
                /\ thinkingDrones' = thinkingDrones \cup {id}
                /\ drones' = updateDroneIntent(drones, id, [status |-> "Assessing"])
                /\ inFlight' = [inFlight EXCEPT ![id].fresh = @ + 1]
    /\ lastOp' = [op |-> "trigger", id |-> id,
                  running |-> simulationState = "Running",
                  disabled |-> drones[id].status = "Disabled",
                  thinking |-> id \in thinkingDrones,
                  started |-> (drones' # drones \/ inFlight' # inFlight
                               \/ thinkingDrones' # thinkingDrones)]
    /\ UNCHANGED <<simulationState, victoryLogs, tickCount, startCount, world0, oracle>>
    /\ UNCHANGED <<logVars, pendingUpdates, mover>>

TimerFires(id, registered) == TimerHandler(id, registered, TRUE)

\* getDroneAction settles: the rest of runDroneLogic, lines 213-256, then
\* thinkingLoop(drone), lines 369-371
CallSettles(id, stale, decision) ==
    /\ IF stale THEN inFlight[id].stale > 0 ELSE inFlight[id].fresh > 0
    /\ drones' = ApplyDecision(drones, id, decision)
    /\ thinkingDrones' = thinkingDrones \ {id}
    /\ inFlight' = IF stale THEN [inFlight EXCEPT ![id].stale = @ - 1]
                   ELSE [inFlight EXCEPT ![id].fresh = @ - 1]
    /\ pendingTimers' = Rescheduled(pendingTimers, id, simulationState = "Running")
    /\ droneThinkTimers' = IF simulationState = "Running"
                           THEN droneThinkTimers \cup {id} ELSE droneThinkTimers
    /\ lastOp' = [op |-> "settle", id |-> id, stale |-> stale, decision |-> decision,
                  wrote |-> drones' # drones,
                  logged |-> DecisionLogs(drones, id, decision)]
    /\ UNCHANGED <<simulationState, victoryLogs, tickCount, startCount, callCount, world0, oracle>>
    /\ UNCHANGED <<logVars, pendingUpdates, mover>>

\* simulationInterval fires, lines 292-360; on victory the effect cleanup follows
TickHandler(limit) ==
    /\ simulationState = "Running"
    /\ tickCount < limit
    /\ tickCount' = tickCount + 1
    /\ drones' = TickWorld(drones)
    /\ IF BattleOver(drones')
       THEN /\ simulationState' = "Stopped"
            /\ victoryLogs' = Append(victoryLogs, Winner(drones'))
            /\ pendingTimers' = ClearedTimers
            /\ droneThinkTimers' = {}
            /\ inFlight' = AllStale(inFlight)
       ELSE /\ inFlight' = StaleWhereDisabled(inFlight, drones')
            /\ UNCHANGED <<simulationState, victoryLogs, pendingTimers, droneThinkTimers>>
    /\ lastOp' = [op |-> "tick", before |-> drones]
    /\ UNCHANGED <<thinkingDrones, startCount, callCount, world0, oracle>>
    /\ UNCHANGED <<logVars, pendingUpdates, mover>>

TickFires == TickHandler(MaxTicks)

----------------------------------------------------------------------------
(* The scheduler specification: the state after construction, or the       *)
(* battle paused with the swarms engaged in one column and nothing in      *)
(* flight (reached from construction by Start, Move decisions, ticks and   *)
(* Pause).                                                                 *)
NoCalls == [id \in Ids |-> [fresh |-> 0, stale |-> 0]]
NoTimers == [id \in Ids |-> 0]
OracleIdle == [pc |-> "idle"]

EngagedRow(id) == IF SwarmOf(id) = "red" THEN 100 ELSE 175 + id[2]
EngagedHealths(id) == IF id[2] = 0 THEN {ATTACK_DAMAGE} ELSE {DRONE_HEALTH}
EngagedDrone(id, h, attacking) ==
    [swarmId |-> SwarmOf(id), position |-> Vec(250, EngagedRow(id)),
     status |-> IF attacking /\ SwarmOf(id) = "red" THEN "Attacking" ELSE "Idle",
     targetPosition |-> Vec(250, EngagedRow(id)), health |-> h,
     targetId |-> IF attacking /\ SwarmOf(id) = "red" THEN DroneId("blue", 0) ELSE Null]
EngagedWorlds ==
    {[id \in Ids |-> EngagedDrone(id, hs[id], attacking)] :
        hs \in {f \in [Ids -> {ATTACK_DAMAGE, 2 * ATTACK_DAMAGE, DRONE_HEALTH}] :
                   \A id \in Ids : f[id] \in EngagedHealths(id)},
        attacking \in BOOLEAN}

Init ==
    /\ \/ simulationState = "Stopped" /\ drones = createInitialSwarm
       \/ simulationState = "Paused" /\ drones \in EngagedWorlds
    /\ thinkingDrones = {}
    /\ droneThinkTimers = {}
    /\ pendingTimers = NoTimers
    /\ inFlight = NoCalls
    /\ victoryLogs = <<>>
    /\ tickCount = 0
    /\ startCount = 0
    /\ callCount = 0
    /\ lastOp = [op |-> "init"]
    /\ world0 = <<>>
    /\ oracle = OracleIdle
    /\ logs = <<>>
    /\ currentPrinciple = ART_OF_WAR_PRINCIPLES[1]
    /\ rotations = 0
    /\ pendingUpdates = <<>>
    /\ mover = NoMover

Next ==
    \/ StartSimulation
    \/ PauseSimulation
    \/ ResetSimulation
    \/ TickFires
    \/ \E id \in Ids, registered \in BOOLEAN : TimerFires(id, registered)
    \/ \E id \in Ids, stale \in BOOLEAN :
          \E decision \in Decisions(drones, id) : CallSettles(id, stale, decision)

Spec == Init /\ [][Next]_vars

----------------------------------------------------------------------------
(* The tick-engine specification: the simulation Running with the swarms   *)
(* in one column, every drone with its think timer pending, and only the   *)
(* action loop firing (each such world is reached from construction by     *)
(* Move and Attack decisions and ticks).                                   *)
TickPosition(y) == Vec(100, y)
TickRows(id) ==
    IF SwarmOf(id) = "red" THEN {300}
    ELSE IF id[2] = 0 THEN {100, 224, 225}
    ELSE IF id[2] = 1 THEN {225, 375} ELSE {375}
TickMoveTarget == TickPosition(226)
TickHealths == {DRONE_HEALTH, 2 * ATTACK_DAMAGE, ATTACK_DAMAGE}
TickTargets(id) == IF SwarmOf(id) = "blue" THEN {DroneId("red", 0)} ELSE BlueIds

\* the first drone of each swarm and the second blue drone take every health and
\* status; a further drone is at full health, Idle or Attacking
TickVaried(id) == id[2] = 0 \/ id = DroneId("blue", 1)

TickDrones(id) ==
    LET base(y) == [swarmId |-> SwarmOf(id), position |-> TickPosition(y),
                    status |-> "Idle", targetPosition |-> TickPosition(y),
                    health |-> DRONE_HEALTH, targetId |-> Null]
    IN  UNION {
          IF TickVaried(id)
          THEN {[base(y) EXCEPT !.status = "Disabled", !.health = 0]}
               \cup {[base(y) EXCEPT !.health = h] : h \in TickHealths}
               \cup {[base(y) EXCEPT !.health = h, !.status = "Moving",
                                     !.targetPosition = TickMoveTarget] : h \in TickHealths}
               \cup {[base(y) EXCEPT !.health = h, !.status = "Attacking", !.targetId = t] :
                       h \in TickHealths, t \in TickTargets(id)}
          ELSE {base(y)}
               \cup {[base(y) EXCEPT !.status = "Attacking", !.targetId = t] :
                       t \in {DroneId(IF SwarmOf(id) = "blue" THEN "red" ELSE "blue", 0)}}
          : y \in TickRows(id)}

RECURSIVE Worlds(_)
\* all worlds [id \in the first k drones of TickOrder -> TickDrones(id)]
Worlds(k) ==
    IF k = 0 THEN {<<>>}
    ELSE {[id \in {TickOrder[j] : j \in 1..k} |->
              IF id = TickOrder[k] THEN d ELSE w[id]] :
            w \in Worlds(k - 1), d \in TickDrones(TickOrder[k])}

InitTick ==
    /\ simulationState = "Running"
    /\ drones \in Worlds(NumBlue + NumRed)
    /\ ~BattleOver(drones)
    /\ thinkingDrones = {}
    /\ droneThinkTimers = Ids
    /\ pendingTimers = [id \in Ids |-> 1]
    /\ inFlight = NoCalls
    /\ victoryLogs = <<>>
    /\ tickCount = 0
    /\ startCount = 1
    /\ callCount = 0
    /\ lastOp = [op |-> "init"]
    /\ world0 = drones
    /\ oracle = OracleIdle
    /\ logs = <<>>
    /\ currentPrinciple = ART_OF_WAR_PRINCIPLES[1]
    /\ rotations = 0
    /\ pendingUpdates = <<>>
    /\ mover = NoMover

TickRuns == TickHandler(TickHorizon)

NextTick == TickRuns

SpecTick == InitTick /\ [][NextTick]_vars

----------------------------------------------------------------------------
(* The decision-oracle client, src/unnamed/part_000:170-306: one           *)
(* getDroneAction call.  A failure is what the catch of the retry loop     *)
(* receives: where it came from (a rate-limit answer of the backend,       *)
(* another backend failure, or the throw of cleanAndParseJson, which is    *)
(* inside the same try), whether it is an Error object, and whether its    *)
(* message contains "429" or "RESOURCE_EXHAUSTED" (the message of a parse  *)
(* error quotes JSON.parse, which names a position or a piece of the text).*)
\* retryInfo is the retryDelay string of the RetryInfo detail in the JSON of the
\* message: none, or a number in tenths of a unit followed by the unit
NoRetryInfo == [unit |-> "none", tenths |-> 0]
RetryInfos ==
    {NoRetryInfo, [unit |-> "s", tenths |-> 1], [unit |-> "s", tenths |-> 20],
     [unit |-> "ms", tenths |-> 20]}

Failures ==
    {[origin |-> "rateLimit", isError |-> TRUE, mentions429 |-> TRUE, retryInfo |-> d] :
        d \in RetryInfos}
    \cup
    {[origin |-> "backend", isError |-> TRUE, mentions429 |-> FALSE, retryInfo |-> NoRetryInfo],
     [origin |-> "backend", isError |-> FALSE, mentions429 |-> TRUE, retryInfo |-> NoRetryInfo],
     [origin |-> "parse", isError |-> TRUE, mentions429 |-> FALSE, retryInfo |-> NoRetryInfo],
     [origin |-> "parse", isError |-> TRUE, mentions429 |-> TRUE, retryInfo |-> NoRetryInfo]}

\* parseRetryDelay, lines 145-168: {} for null, else {ms}; the string has to match
\* /^(\d+(\.\d+)?)s$/, and parseFloat(match[1]) * 1000 turns seconds into ms
parseRetryDelay(error) ==
    IF error.retryInfo.unit = "s" THEN {error.retryInfo.tenths * 100} ELSE {}

\* (Math.random() - 0.5) * 1000 lies in [-500, 500): the ends and the middle
Jitters == {0 - 500, 0, 499}

\* what JSON.parse of the cleaned text yields when it does not throw
Stratagems == {"MOVE", "ATTACK", "HOLD", "null"}

\* const isRateLimitError = error instanceof Error && (error.message.includes('429')
\*     || error.message.includes('RESOURCE_EXHAUSTED')), line 199
isRateLimitError(error) == error.isError /\ error.mentions429

\* isRateLimitError && attempt < MAX_RETRIES, line 201
Retries(error, attempt) == isRateLimitError(error) /\ attempt < MAX_RETRIES

\* mutant: the backoff that does not look at the delay the server suggests
baseWaitMsNoHint(error, attempt) ==
    IF attempt = 1 THEN 2000 ELSE 2 ^ attempt * 1000

\* baseWaitMs, lines 203-213
baseWaitMs(error, attempt) ==
    IF attempt = 1
    THEN IF parseRetryDelay(error) # {}
         THEN CHOOSE d \in parseRetryDelay(error) : TRUE ELSE 2000
    ELSE 2 ^ attempt * 1000

\* finalWaitMs = Math.max(500, baseWaitMs + jitter), line 217
finalWaitMs(error, attempt, jitter) == Max(500, baseWaitMs(error, attempt) + jitter)

OracleDone(o, kind, value) == [o EXCEPT !.pc = "done", !.result = [kind |-> kind, value |-> value]]

\* mutant: the client is taken to be there whatever the key
ClientNeverMissing(provider, hasKey) == FALSE

\* if (!ai) on the cloud path, lines 178-180; ai is null without API_KEY, lines 33-40
ClientMissing(provider, hasKey) == provider = "GoogleAI" /\ ~hasKey

\* getDroneAction dispatches on model.provider, lines 284-294; getGoogleAIAction
\* throws at once without a client, lines 178-180, else makes attempt 1
OracleCalled(provider, hasKey) ==
    /\ oracle.pc = "idle"
    /\ LET o == [pc |-> "calling", provider |-> provider, hasKey |-> hasKey, attempt |-> 1,
                 invocations |-> 1, failures |-> <<>>, waits |-> <<>>,
                 result |-> [kind |-> "none", value |-> "none"]]
       IN  oracle' = IF ClientMissing(provider, hasKey)
                     THEN OracleDone([o EXCEPT !.invocations = 0, !.attempt = 0],
                                     "error", "no client")
                     ELSE o
    /\ UNCHANGED <<simulationState, drones, thinkingDrones, droneThinkTimers, pendingTimers,
                   inFlight, victoryLogs, tickCount, startCount, callCount, lastOp, world0>>
    /\ UNCHANGED <<logVars, pendingUpdates, mover>>

\* the awaited backend call returns text that parses, lines 192-197 and 243-268
BackendAnswers(stratagem) ==
    /\ oracle.pc = "calling"
    /\ oracle' = OracleDone(oracle, "stratagem", stratagem)
    /\ UNCHANGED <<simulationState, drones, thinkingDrones, droneThinkTimers, pendingTimers,
                   inFlight, victoryLogs, tickCount, startCount, callCount, lastOp, world0>>
    /\ UNCHANGED <<logVars, pendingUpdates, mover>>

\* the try body throws: the catch of the retry loop, lines 198-232, on the cloud
\* backend; the throw leaves getOllamaAction on the local one
BackendFails(error, jitter) ==
    /\ oracle.pc = "calling"
    /\ LET seen == [oracle EXCEPT !.failures = Append(@, error)]
       IN  oracle' = IF oracle.provider = "GoogleAI" /\ Retries(error, oracle.attempt)
                     THEN [seen EXCEPT !.pc = "waiting",
                                       !.waits = Append(@, finalWaitMs(error, oracle.attempt, jitter))]
                     ELSE OracleDone(seen, "error", error.origin)
    /\ UNCHANGED <<simulationState, drones, thinkingDrones, droneThinkTimers, pendingTimers,
                   inFlight, victoryLogs, tickCount, startCount, callCount, lastOp, world0>>
    /\ UNCHANGED <<logVars, pendingUpdates, mover>>

\* the backoff sleep ends: continue, and the next attempt calls generateContent,
\* lines 226-227 and 190-196; the loop left by its condition throws at line 235
WaitElapses ==
    /\ oracle.pc = "waiting"
    /\ oracle' = IF oracle.attempt + 1 <= MAX_RETRIES
                 THEN [oracle EXCEPT !.pc = "calling", !.attempt = @ + 1,
                                     !.invocations = @ + 1]
                 ELSE OracleDone([oracle EXCEPT !.attempt = @ + 1], "error", "exhausted")
    /\ UNCHANGED <<simulationState, drones, thinkingDrones, droneThinkTimers, pendingTimers,
                   inFlight, victoryLogs, tickCount, startCount, callCount, lastOp, world0>>
    /\ UNCHANGED <<logVars, pendingUpdates, mover>>

InitOracle ==
    /\ simulationState = "Running"
    /\ drones = createInitialSwarm
    /\ thinkingDrones = {}
    /\ droneThinkTimers = {}
    /\ pendingTimers = NoTimers
    /\ inFlight = NoCalls
    /\ victoryLogs = <<>>
    /\ tickCount = 0
    /\ startCount = 1
    /\ callCount = 0
    /\ lastOp = [op |-> "init"]
    /\ world0 = <<>>
    /\ oracle = OracleIdle
    /\ logs = <<>>
    /\ currentPrinciple = ART_OF_WAR_PRINCIPLES[1]
    /\ rotations = 0
    /\ pendingUpdates = <<>>
    /\ mover = NoMover

NextOracle ==
    \/ \E provider \in {"GoogleAI", "Ollama"}, hasKey \in BOOLEAN : OracleCalled(provider, hasKey)
    \/ \E stratagem \in Stratagems : BackendAnswers(stratagem)
    \/ \E error \in Failures, jitter \in Jitters : BackendFails(error, jitter)
    \/ WaitElapses

SpecOracle == InitOracle /\ [][NextOracle]_vars

----------------------------------------------------------------------------
(* The event-log specification: the rotation clock, the only periodic      *)
(* writer of the log that needs no world, with Start, Pause and Reset.     *)

\* principleInterval fires, src/App.tsx:379-387 (the interval exists while Running)
PrincipleFires ==
    /\ simulationState = "Running"
    /\ rotations < MaxRotations
    /\ rotations' = rotations + 1
    /\ currentPrinciple' = newPrinciple(currentPrinciple)
    /\ logs' = addLog(logs, LogEntry("Info", "System", newPrinciple(currentPrinciple)))
    /\ lastOp' = [op |-> "rotate", before |-> currentPrinciple, logsBefore |-> logs]
    /\ UNCHANGED <<simulationState, drones, thinkingDrones, droneThinkTimers, pendingTimers,
                   inFlight, victoryLogs, tickCount, startCount, callCount, world0, oracle,
                   pendingUpdates, mover>>

InitLog ==
    /\ simulationState = "Stopped"
    /\ drones = createInitialSwarm
    /\ thinkingDrones = {}
    /\ droneThinkTimers = {}
    /\ pendingTimers = NoTimers
    /\ inFlight = NoCalls
    /\ victoryLogs = <<>>
    /\ tickCount = 0
    /\ startCount = 0
    /\ callCount = 0
    /\ lastOp = [op |-> "init"]
    /\ world0 = <<>>
    /\ oracle = OracleIdle
    /\ logs = <<>>
    /\ currentPrinciple = ART_OF_WAR_PRINCIPLES[1]
    /\ rotations = 0
    /\ pendingUpdates = <<>>
    /\ mover = NoMover

NextLog ==
    \/ StartSimulation
    \/ PauseSimulation
    \/ ResetSimulation
    \/ PrincipleFires

SpecLog == InitLog /\ [][NextLog]_vars

----------------------------------------------------------------------------
(* The render specification: the same timer, completion and tick handlers  *)
(* when React batches the updates of a callback and renders in a later     *)
(* task.  A handler reads the refs, which hold the state of the last       *)
(* render (lines 149-152, 163-164), and queues its updates; the next       *)
(* render applies the queue in order: an updater function to the state     *)
(* queued before it, a value in place of it.  blueDrones and redDrones     *)
(* have a queue each; one queue keeps the order within each.               *)

\* setBlueDrones(updater) / setRedDrones(updater) of updateDroneIntent, lines 180-187
IntentUpdate(id, updates) == [kind |-> "intent", id |-> id, updates |-> updates]

\* setBlueDrones(newBlue); setRedDrones(newRed), lines 350-351
WorldUpdate(world) == [kind |-> "replace", world |-> world]

\* setSimulationState(SimulationState.Stopped), line 356
StopUpdate == [kind |-> "stop"]

\* one queued update applied to the state before it
ApplyUpdate(world, u) ==
    IF u.kind = "replace" THEN u.world
    ELSE IF u.kind = "intent" THEN updateDroneIntent(world, u.id, u.updates)
    ELSE world

\* the state a render computes from the queue
RECURSIVE Rendered(_, _)
Rendered(world, queue) ==
    IF queue = <<>> THEN world
    ELSE Rendered(ApplyUpdate(world, Head(queue)), Tail(queue))

\* the updateDroneIntent calls of the continuation after the await, lines 213-253,
\* deciding on the world the refs hold
DecisionUpdates(world, id, decision) ==
    IF simulationState # "Running" THEN <<>>
    ELSE IF world[id].status = "Disabled" THEN <<>>
    ELSE IF decision.type = "MOVE"
        THEN <<IntentUpdate(id, [status |-> "Moving", targetPosition |-> decision.position,
                                 targetId |-> Null])>>
    ELSE IF decision.type = "ATTACK"
        THEN IF ValidTarget(world, id, decision.target_id)
             THEN <<IntentUpdate(id, [status |-> "Attacking",
                                      targetId |-> decision.target_id])>>
             ELSE <<IntentUpdate(id, [status |-> "Idle"])>>
    ELSE IF decision.type = "HOLD"
        THEN <<IntentUpdate(id, [status |-> "Idle", targetId |-> Null])>>
    ELSE <<IntentUpdate(id, [status |-> "Idle"])>>

\* React renders: the queue is applied, the refs follow, and the effect cleanup runs
\* when simulationState left Running, lines 149-164 and 389-394
Render ==
    /\ pendingUpdates # <<>>
    /\ drones' = Rendered(drones, pendingUpdates)
    /\ pendingUpdates' = <<>>
    /\ IF \E i \in 1..Len(pendingUpdates) : pendingUpdates[i] = StopUpdate
       THEN /\ simulationState' = "Stopped"
            /\ pendingTimers' = ClearedTimers
            /\ droneThinkTimers' = {}
            /\ inFlight' = AllStale(inFlight)
       ELSE UNCHANGED <<simulationState, pendingTimers, droneThinkTimers, inFlight>>
    /\ lastOp' = [op |-> "render", before |-> drones, updates |-> pendingUpdates]
    /\ UNCHANGED <<thinkingDrones, victoryLogs, tickCount, startCount, callCount, world0,
                   oracle, logVars, mover>>

\* a think timer fires, lines 189-211 and 369-371, its write queued
TimerFiresQueued(id) ==
    /\ pendingTimers[id] > 0
    /\ id \in droneThinkTimers
    /\ LET fired == [pendingTimers EXCEPT ![id] = @ - 1] IN
       IF Refused(id)
       THEN /\ pendingTimers' = Rescheduled(fired, id, simulationState = "Running")
            /\ droneThinkTimers' =
                   IF simulationState = "Running" THEN droneThinkTimers
                   ELSE droneThinkTimers \ {id}
            /\ UNCHANGED <<thinkingDrones, inFlight, callCount, pendingUpdates>>
       ELSE /\ callCount < MaxCalls
            /\ Len(pendingUpdates) < MaxPending
            /\ callCount' = callCount + 1
            /\ pendingTimers' = fired
            /\ droneThinkTimers' = droneThinkTimers \ {id}
            /\ thinkingDrones' = thinkingDrones \cup {id}
            /\ pendingUpdates' =
                   Append(pendingUpdates, IntentUpdate(id, [status |-> "Assessing"]))
            /\ inFlight' = [inFlight EXCEPT ![id].fresh = @ + 1]
    /\ lastOp' = [op |-> "trigger", id |-> id]
    /\ UNCHANGED <<simulationState, drones, victoryLogs, tickCount, startCount, world0,
                   oracle, logVars, mover>>

\* getDroneAction settles, lines 213-256 and 369-371, its write queued
CallSettlesQueued(id, decision) ==
    /\ InFlightCount(id) > 0
    /\ Len(pendingUpdates) < MaxPending
    /\ pendingUpdates' = pendingUpdates \o DecisionUpdates(drones, id, decision)
    /\ thinkingDrones' = thinkingDrones \ {id}
    /\ inFlight' = IF inFlight[id].fresh > 0 THEN [inFlight EXCEPT ![id].fresh = @ - 1]
                   ELSE [inFlight EXCEPT ![id].stale = @ - 1]
    /\ pendingTimers' = Rescheduled(pendingTimers, id, simulationState = "Running")
    /\ droneThinkTimers' = IF simulationState = "Running"
                           THEN droneThinkTimers \cup {id} ELSE droneThinkTimers
    /\ lastOp' = [op |-> "settle", id |-> id, decision |-> decision]
    /\ UNCHANGED <<simulationState, drones, victoryLogs, tickCount, startCount, callCount,
                   world0, oracle, logVars, mover>>

\* simulationInterval fires, lines 292-360, its writes queued
TickFiresQueued ==
    /\ simulationState = "Running"
    /\ tickCount < MaxTicks
    /\ Len(pendingUpdates) < MaxPending
    /\ tickCount' = tickCount + 1
    /\ LET newWorld == TickWorld(drones) IN
       IF BattleOver(newWorld)
       THEN /\ pendingUpdates' = pendingUpdates \o <<WorldUpdate(newWorld), StopUpdate>>
            /\ victoryLogs' = Append(victoryLogs, Winner(newWorld))
       ELSE /\ pendingUpdates' = Append(pendingUpdates, WorldUpdate(newWorld))
            /\ UNCHANGED victoryLogs
    /\ lastOp' = [op |-> "tick", before |-> drones]
    /\ UNCHANGED <<simulationState, drones, thinkingDrones, droneThinkTimers, pendingTimers,
                   inFlight, startCount, callCount, world0, oracle, logVars, mover>>

InitRender ==
    /\ simulationState = "Running"
    /\ drones \in EngagedWorlds
    /\ thinkingDrones = {}
    /\ droneThinkTimers = Ids
    /\ pendingTimers = [id \in Ids |-> 1]
    /\ inFlight = NoCalls
    /\ victoryLogs = <<>>
    /\ tickCount = 0
    /\ startCount = 1
    /\ callCount = 0
    /\ lastOp = [op |-> "init"]
    /\ world0 = <<>>
    /\ oracle = OracleIdle
    /\ logs = <<>>
    /\ currentPrinciple = ART_OF_WAR_PRINCIPLES[1]
    /\ rotations = 0
    /\ pendingUpdates = <<>>
    /\ mover = NoMover

NextRender ==
    \/ Render
    \/ TickFiresQueued
    \/ \E id \in Ids : TimerFiresQueued(id)
    \/ \E id \in Ids : \E decision \in Decisions(drones, id) : CallSettlesQueued(id, decision)

SpecRender == InitRender /\ [][NextRender]_vars

----------------------------------------------------------------------------
(* The movement specification: one Moving drone that receives no decision, *)
(* on a coordinate axis, its coordinates in steps of 1/MoveGrid of a unit  *)
(* so that the remaining distance can be a fraction of DRONE_SPEED, and    *)
(* only the action loop firing.                                            *)
MoverLines ==
    {<<Vec(a, 0), Vec(b, 0)>> : a \in 0..MoveSpan, b \in 0..MoveSpan}
    \cup {<<Vec(0, a), Vec(0, b)>> : a \in 0..MoveSpan, b \in 0..MoveSpan}

MovingDrone(position, targetPosition) ==
    [swarmId |-> "blue", position |-> position, status |-> "Moving",
     targetPosition |-> targetPosition, health |-> DRONE_HEALTH, targetId |-> Null]

\* simulationInterval fires, lines 292-360, seen from the one drone: the Moving
\* branch while it is Moving, no branch once it is Idle
MoverTick ==
    /\ simulationState = "Running"
    /\ tickCount < MoveTicks
    /\ tickCount' = tickCount + 1
    /\ mover' = IF mover.status = "Moving"
                THEN MoveDrone(mover, DRONE_SPEED * MoveGrid) ELSE mover
    /\ lastOp' = [op |-> "move", before |-> mover, start |-> lastOp.start]
    /\ UNCHANGED <<simulationState, drones, thinkingDrones, droneThinkTimers, pendingTimers,
                   inFlight, victoryLogs, startCount, callCount, world0, oracle, logVars,
                   pendingUpdates>>

InitMove ==
    /\ simulationState = "Running"
    /\ drones = createInitialSwarm
    /\ \E line \in MoverLines : mover = MovingDrone(line[1], line[2])
    /\ thinkingDrones = {}
    /\ droneThinkTimers = Ids
    /\ pendingTimers = [id \in Ids |-> 1]
    /\ inFlight = NoCalls
    /\ victoryLogs = <<>>
    /\ tickCount = 0
    /\ startCount = 1
    /\ callCount = 0
    /\ lastOp = [op |-> "init", start |-> mover.position]
    /\ world0 = <<>>
    /\ oracle = OracleIdle
    /\ logs = <<>>
    /\ currentPrinciple = ART_OF_WAR_PRINCIPLES[1]
    /\ rotations = 0
    /\ pendingUpdates = <<>>

NextMove == MoverTick

SpecMove == InitMove /\ [][NextMove]_vars

\* the interval timer fires every 100 ms while the simulation is Running
SpecMoveLive == SpecMove /\ WF_vars(MoverTick)

----------------------------------------------------------------------------
(* The thinking-loop specification: the simulation Running and never       *)
(* paused or reset, every drone with its think timer pending, the timers,  *)
(* the completions and the action loop firing, with no bound on the number *)
(* of think cycles.                                                        *)
ThinkTimerFires(id) == TimerHandler(id, TRUE, FALSE)

\* the decisions of this specification: all but Move, which only changes where the
\* drone goes
ThinkDecisions(world, id) == {d \in Decisions(world, id) : d.type # "MOVE"}

ThinkCallSettles(id) ==
    \E stale \in BOOLEAN :
        \E decision \in ThinkDecisions(drones, id) : CallSettles(id, stale, decision)

ThinkTick == TickHandler(ThinkTicks)

InitThink ==
    /\ simulationState = "Running"
    /\ drones \in EngagedWorlds
    /\ thinkingDrones = {}
    /\ droneThinkTimers = Ids
    /\ pendingTimers = [id \in Ids |-> 1]
    /\ inFlight = NoCalls
    /\ victoryLogs = <<>>
    /\ tickCount = 0
    /\ startCount = 1
    /\ callCount = 0
    /\ lastOp = [op |-> "init"]
    /\ world0 = <<>>
    /\ oracle = OracleIdle
    /\ logs = <<>>
    /\ currentPrinciple = ART_OF_WAR_PRINCIPLES[1]
    /\ rotations = 0
    /\ pendingUpdates = <<>>
    /\ mover = NoMover

NextThink ==
    \/ ThinkTick
    \/ \E id \in Ids : ThinkTimerFires(id)
    \/ \E id \in Ids : ThinkCallSettles(id)

SpecThink == InitThink /\ [][NextThink]_vars

\* a timer set fires within 10 s, and every getDroneAction call settles (every
\* backend invocation returns or fails, and the client makes at most MAX_RETRIES)
SpecThinkLive ==
    /\ SpecThink
    /\ \A id \in Ids : WF_vars(ThinkTimerFires(id)) /\ WF_vars(ThinkCallSettles(id))

----------------------------------------------------------------------------
(* Claims.                                                                 *)

\* C1: for every agent id at most one decision request (a getDroneAction call
\* started and not yet settled) is outstanding, over timer firings, settlements,
\* pause, resume, reset and restart.
C1_AtMostOneInFlight == \A id \in Ids : InFlightCount(id) <= 1

\* C2: once an agent is Disabled it stays Disabled (and its health is not touched)
\* in every later state until a reset; no think-cycle start or completion changes a
\* Disabled agent's status.
C2_DisabledStays ==
    [][\A id \in Ids :
          (drones[id].status = "Disabled" /\ lastOp'.op # "reset")
              => (drones'[id].status = "Disabled" /\ drones'[id].health = drones[id].health)]_vars

\* C3: starting a think cycle writes nothing (no status Assessing, no call, nothing
\* added to the in-flight set) whenever the simulation is not Running, or the agent
\* is Disabled in the current world, or the agent already has a request in flight.
C3_TriggerNoOp ==
    (lastOp.op = "trigger" /\ (~lastOp.running \/ lastOp.disabled \/ lastOp.thinking))
        => ~lastOp.started

\* C4: a call during which the simulation left Running or the agent became Disabled
\* writes nothing to the agent when it settles.
C4_StaleDiscarded == (lastOp.op = "settle" /\ lastOp.stale) => ~lastOp.wrote

\* C5: in every reachable state every agent's health is an integer in [0,100].
C5_HealthRange == \A id \in Ids : drones[id].health \in 0..100

\* C5 witness: a tick has just brought an agent's health down to the lower end.
C5_Witness ==
    /\ lastOp.op = "tick"
    /\ \E id \in Ids : lastOp.before[id].health > 0 /\ drones[id].health = 0

\* the world the k-th step of the action loop starts from
StepPre(k) == Processed(lastOp.before, k - 1)
Steps == 1..(NumBlue + NumRed)
Manhattan(p, q) == Abs(q.x - p.x) + Abs(q.y - p.y)

\* the drone processed is Attacking a target that is not Disabled
AttackStep(pre, id) ==
    /\ pre[id].status = "Attacking"
    /\ pre[id].targetId \in Ids
    /\ pre[pre[id].targetId].status # "Disabled"

AttackStepAsClaimed(pre, id) ==
    LET post == ProcessDrone(pre, id)
        a == pre[id]
        t == a.targetId
        tp == pre[t].position
    IN  IF DistSq(a.position, tp) <= 75 * 75
        THEN /\ post[t].health = Max(0, pre[t].health - 5)
             /\ post[t].health < pre[t].health
             /\ post[id].position = a.position
        ELSE /\ DistSq(a.position, post[id].position) = 1
             /\ Manhattan(post[id].position, tp) = Manhattan(a.position, tp) - 1
             /\ post[id].status = "Attacking"
             /\ post[t].health = pre[t].health

\* C6: in a tick an Attacking agent with a non-Disabled target takes 5 off the
\* target's health (not below 0) and stays where it is iff the distance is at most
\* 75; farther away it moves exactly 1 unit toward the target, stays Attacking and
\* leaves the target's health alone: from (100,100) toward (100,300) it is at
\* (100,101) after the tick.
C6_AttackIffInRange ==
    lastOp.op = "tick" =>
        /\ drones = Processed(lastOp.before, NumBlue + NumRed)
        /\ \A k \in Steps :
              AttackStep(StepPre(k), TickOrder[k])
                  => AttackStepAsClaimed(StepPre(k), TickOrder[k])
        /\ \A id \in Ids :
              LET a == lastOp.before[id] IN
              (/\ a.status = "Attacking" /\ a.targetId \in Ids
               /\ a.position = Vec(100, 100)
               /\ lastOp.before[a.targetId].position = Vec(100, 300)
               /\ lastOp.before[a.targetId].status # "Disabled"
               /\ \A o \in Ids \ {id} : lastOp.before[o].status # "Attacking")
                  => /\ drones[id].position = Vec(100, 101)
                     /\ drones[id].status = "Attacking"
                     /\ drones[a.targetId].health = lastOp.before[a.targetId].health

\* C6 witness: the tick has moved the attacker of the scenario from (100,100) to
\* (100,101), and another drone of the same tick has struck its target in range.
C6_Witness ==
    /\ lastOp.op = "tick"
    /\ \E id \in Ids :
          /\ lastOp.before[id].status = "Attacking"
          /\ lastOp.before[id].position = Vec(100, 100)
          /\ drones[id].position = Vec(100, 101)
    /\ \E id \in Ids :
          /\ lastOp.before[id].status = "Attacking"
          /\ lastOp.before[id].targetId \in Ids
          /\ DistSq(lastOp.before[id].position,
                    lastOp.before[lastOp.before[id].targetId].position) = 75 * 75
          /\ drones[lastOp.before[id].targetId].health
               = lastOp.before[lastOp.before[id].targetId].health - 5

\* a lone attacker a in range of a stationary target t at health 100, at the start
Duel(a, t) ==
    /\ world0 # <<>>
    /\ world0[a].status = "Attacking" /\ world0[a].targetId = t
    /\ ~OutOfRange(world0[a].position, world0[t].position)
    /\ world0[t].status = "Idle" /\ world0[t].health = 100
    /\ \A o \in Ids \ {a} : ~(world0[o].status = "Attacking" /\ world0[o].targetId = t)

KillAsClaimed(pre, id) ==
    LET post == ProcessDrone(pre, id) IN
    \A t \in Ids :
        (pre[t].health > 0 /\ post[t].health = 0)
            => /\ post[t].status = "Disabled"
               /\ post[id].status = "Idle"
               /\ post[id].targetId = Null

\* C7: when an in-range attack brings the target's health to 0, that same step of
\* the tick makes the target Disabled and the attacker Idle with targetId null; a
\* lone attacker of a target at health 100 gets there at its 20th attacking tick
\* and not before.
C7_KillRevertsAttacker ==
    /\ lastOp.op = "tick" =>
          \A k \in Steps : KillAsClaimed(StepPre(k), TickOrder[k])
    /\ \A a \in Ids, t \in Ids :
          (Duel(a, t) /\ drones[a].status # "Disabled")
              => IF tickCount < 20
                 THEN /\ drones[t].health = 100 - 5 * tickCount
                      /\ drones[t].status # "Disabled"
                      /\ drones[a].status = "Attacking" /\ drones[a].targetId = t
                 ELSE /\ drones[t].health = 0
                      /\ drones[t].status = "Disabled"
                      /\ drones[a].status = "Idle" /\ drones[a].targetId = Null

\* C7 witness: the 20th tick of a lone attacker has just disabled its target.
C7_Witness ==
    /\ lastOp.op = "tick"
    /\ tickCount = 20
    /\ \E a \in Ids, t \in Ids :
          /\ Duel(a, t)
          /\ lastOp.before[t].health = 5
          /\ drones[t].status = "Disabled"
          /\ drones[a].status = "Idle"

\* C8: at the end of every tick no agent is Attacking with a targetId that is
\* missing or names a Disabled agent.
C8_NoAttackOnDisabled ==
    lastOp.op = "tick" =>
        \A id \in Ids :
            drones[id].status = "Attacking"
                => /\ drones[id].targetId \in Ids
                   /\ drones[drones[id].targetId].status # "Disabled"

\* C9: the tick that leaves a swarm without a non-Disabled agent stops the
\* simulation, and until a reset exactly one victory entry is ever appended, naming
\* the swarm that still has a non-Disabled agent.
C9_OneVictoryLog ==
    /\ Len(victoryLogs) <= 1
    /\ (lastOp.op = "tick" /\ BattleOver(drones))
          => /\ simulationState = "Stopped"
             /\ Len(victoryLogs) = 1
             /\ \/ victoryLogs[1] = "Blue Swarm" /\ Alive(drones, "blue")
                \/ victoryLogs[1] = "Red Swarm" /\ Alive(drones, "red")

\* C10: a think cycle on the cloud backend invokes the backend at most 3 times, and
\* again only after rate-limit failures: once a failure that is not a rate-limit
\* failure was met no further invocation is made; on the local backend the backend
\* is invoked exactly once, whatever the failure.
C10_RetryOnlyRateLimit ==
    oracle.pc # "idle" =>
        /\ oracle.invocations <= 3
        /\ \A i \in 1..Len(oracle.failures) :
              oracle.invocations > i => oracle.failures[i].origin = "rateLimit"
        /\ oracle.provider = "Ollama" => oracle.invocations = 1

\* C11: three consecutive rate-limit failures of one cloud call end the call with
\* an exhausted-retries error, which is not the rate-limit error of the last
\* attempt, and no fourth attempt is made.
C11_ExhaustedRetries ==
    /\ oracle.pc # "idle" => oracle.invocations <= 3
    /\ (/\ oracle.pc = "done"
        /\ oracle.provider = "GoogleAI"
        /\ Len(oracle.failures) = 3
        /\ \A i \in 1..3 : oracle.failures[i].origin = "rateLimit")
           => oracle.result = [kind |-> "error", value |-> "exhausted"]

\* C12: a response that fails to parse is never retried: on either backend and
\* whatever the text of the parse error, the parse failure is the last failure of
\* the call, no invocation follows it, and the call ends with an error.
C12_ParseErrorNotRetried ==
    oracle.pc # "idle" =>
        \A i \in 1..Len(oracle.failures) :
            oracle.failures[i].origin = "parse"
                => /\ i = Len(oracle.failures)
                   /\ oracle.invocations = i
                   /\ oracle.pc = "done"
                   /\ oracle.result = [kind |-> "error", value |-> "parse"]

\* C17: without the cloud backend's credential a call that selects the cloud
\* backend makes no backend invocation and no retry and ends with an error; the
\* scheduler, Running with the agent not Disabled, logs the error and sets the
\* agent Idle.
C17_NoCredentialNoCall ==
    (oracle.pc # "idle" /\ oracle.provider = "GoogleAI" /\ ~oracle.hasKey)
        => /\ oracle.pc = "done"
           /\ oracle.invocations = 0
           /\ oracle.failures = <<>> /\ oracle.waits = <<>>
           /\ oracle.result.kind = "error"
           /\ \A id \in Ids :
                 (simulationState = "Running" /\ drones[id].status # "Disabled")
                     => /\ ApplyDecision(drones, id, Thrown)[id].status = "Idle"
                        /\ DecisionLogs(drones, id, Thrown) = <<"Error">>

\* C17 witness: a call on the cloud backend without a credential has ended.
C17_Witness ==
    /\ oracle.pc = "done" /\ oracle.provider = "GoogleAI" /\ ~oracle.hasKey
    /\ oracle.result = [kind |-> "error", value |-> "no client"]
    /\ simulationState = "Running"
    /\ \E id \in Ids : drones[id].status # "Disabled"

\* C13: the event log never holds more than 100 entries; an append to a log of
\* 100 entries drops the oldest one, and the entries that stay keep their order.
C13_LogCapacity ==
    /\ Len(logs) <= 100
    /\ lastOp.op = "rotate" =>
          LET before == lastOp.logsBefore IN
          IF Len(before) < 100
          THEN SubSeq(logs, 1, Len(logs) - 1) = before
          ELSE SubSeq(logs, 1, Len(logs) - 1) = SubSeq(before, 2, Len(before))

\* C16: a rotation firing moves the principle from entry i of the list to entry
\* (i+1) mod n, after k firings since construction or reset the principle is entry
\* k mod n, and the firing appends exactly one Info entry holding the new
\* principle.
C16_PrincipleRotation ==
    /\ currentPrinciple = ART_OF_WAR_PRINCIPLES[(rotations % NumPrinciples) + 1]
    /\ lastOp.op = "rotate" =>
          /\ indexOf(currentPrinciple) = (indexOf(lastOp.before) + 1) % NumPrinciples
          /\ Len(logs) >= 1
          /\ logs[Len(logs)] = LogEntry("Info", "System", currentPrinciple)
          /\ SubSeq(logs, 1, Len(logs) - 1)
                = SliceLast(lastOp.logsBefore, Len(logs) - 1)
          /\ Len(logs) - 1 >= Len(SliceLast(lastOp.logsBefore, 99))

\* C16 witness: the firing after the last entry has wrapped to the first one.
C16_Witness ==
    /\ lastOp.op = "rotate"
    /\ rotations = NumPrinciples
    /\ lastOp.before = ART_OF_WAR_PRINCIPLES[NumPrinciples]
    /\ currentPrinciple = ART_OF_WAR_PRINCIPLES[1]

\* C14: whenever the simulation is not Running (after a pause, a victory stop or a
\* reset) no think timer is pending: every timer set and not yet fired was
\* cancelled by the stop.
C14_NoTimerWhenStopped ==
    simulationState # "Running" => \A id \in Ids : pendingTimers[id] = 0

\* C19: for every agent at most one of a pending think timer and an in-flight think
\* cycle exists at any instant (a new timer is set only after the previous cycle
\* has completed), over any sequence of pause and resume.
C19_TimerXorInFlight ==
    \A id \in Ids : pendingTimers[id] + InFlightCount(id) <= 1

\* C15: a think cycle of agent A, at its start and at its completion and whatever
\* the outcome, changes at most A's status, targetPosition and targetId (and the
\* log): no agent's health or position, no other agent's field, not the simulation
\* state, not the guiding principle, and the tick engine is left as it was.
C15_ThinkCycleFrame ==
    [][lastOp'.op \in {"trigger", "settle"} =>
          /\ \A d \in Ids :
                /\ drones'[d].health = drones[d].health
                /\ drones'[d].position = drones[d].position
                /\ drones'[d].swarmId = drones[d].swarmId
                /\ d # lastOp'.id => drones'[d] = drones[d]
          /\ simulationState' = simulationState
          /\ currentPrinciple' = currentPrinciple
          /\ tickCount' = tickCount
          /\ victoryLogs' = victoryLogs]_vars

\* C15 witness: a cycle whose oracle call failed has set its agent Idle.
C15_Witness ==
    /\ lastOp.op = "settle" /\ lastOp.decision.type = "throw" /\ lastOp.wrote
    /\ drones[lastOp.id].status = "Idle"
    /\ \E d \in Ids \ {lastOp.id} : drones[d].status \in {"Assessing", "Attacking", "Moving"}

\* C20: a completion with a stratagem while Running and with the agent not Disabled:
\* Move sets Moving, the given target position and targetId null; Attack sets
\* Attacking and the targetId iff the id names a non-Disabled agent of the enemy
\* roster as it is at completion, else logs an error and sets Idle; Hold sets Idle
\* and targetId null.
C20_DecisionApplied ==
    [][(/\ lastOp'.op = "settle"
        /\ simulationState = "Running"
        /\ drones[lastOp'.id].status # "Disabled"
        /\ lastOp'.decision.type \in {"MOVE", "ATTACK", "HOLD"})
          => LET id == lastOp'.id
                 decision == lastOp'.decision
                 enemyNow == decision.target_id \in Ids
                                /\ SwarmOf(decision.target_id) # SwarmOf(id)
                                /\ drones[decision.target_id].status # "Disabled"
             IN  CASE decision.type = "MOVE" ->
                        /\ drones'[id].status = "Moving"
                        /\ drones'[id].targetPosition = decision.position
                        /\ drones'[id].targetId = Null
                   [] decision.type = "HOLD" ->
                        /\ drones'[id].status = "Idle"
                        /\ drones'[id].targetId = Null
                   [] decision.type = "ATTACK" ->
                        IF enemyNow
                        THEN /\ drones'[id].status = "Attacking"
                             /\ drones'[id].targetId = decision.target_id
                             /\ "Error" \notin {lastOp'.logged[i] : i \in 1..Len(lastOp'.logged)}
                        ELSE /\ drones'[id].status = "Idle"
                             /\ lastOp'.logged[Len(lastOp'.logged)] = "Error"]_vars

\* C20 witness: an Attack on an enemy that was disabled since the request has been
\* refused with an error entry and the agent is Idle.
C20_Witness ==
    /\ lastOp.op = "settle" /\ lastOp.decision.type = "ATTACK"
    /\ lastOp.decision.target_id \in Ids
    /\ SwarmOf(lastOp.decision.target_id) # SwarmOf(lastOp.id)
    /\ drones[lastOp.decision.target_id].status = "Disabled"
    /\ lastOp.logged = <<"Stratagem", "Error">>
    /\ drones[lastOp.id].status = "Idle"

\* the intents of completed think cycles in a queue that no later intent of the
\* same agent replaces
LastIntents(q) ==
    {i \in 1..Len(q) :
        /\ q[i].kind = "intent"
        /\ q[i].updates.status # "Assessing"
        /\ \A j \in (i + 1)..Len(q) : ~(q[j].kind = "intent" /\ q[j].id = q[i].id)}

\* C18: an intent written by a think cycle between two ticks is in the world the
\* next tick reads and no tick replaces it by a snapshot read before the write;
\* and no intent write changes a Disabled status or a health written by a tick.
C18_IntentsAndTicks ==
    lastOp.op = "render" =>
        LET q == lastOp.updates IN
        /\ \A i \in LastIntents(q) : \A f \in DOMAIN q[i].updates :
               drones[q[i].id][f] = q[i].updates[f]
        /\ \A i \in 1..Len(q) :
               q[i].kind = "replace" =>
                   \A id \in Ids :
                       /\ q[i].world[id].status = "Disabled"
                              => drones[id].status = "Disabled"
                       /\ \A j \in (i + 1)..Len(q) : q[j].kind # "replace"
                              => drones[id].health = q[i].world[id].health
        /\ \A id \in Ids :
               lastOp.before[id].status = "Disabled" => drones[id].status = "Disabled"

\* C21: a think cycle that ends with a propagated error or without a stratagem,
\* while Running and with the agent not Disabled, appends exactly one error entry
\* authored by the agent and leaves the agent as a Hold decision does: status Idle
\* and targetId null.
C21_FailureHolds ==
    [][(/\ lastOp'.op = "settle"
        /\ simulationState = "Running"
        /\ drones[lastOp'.id].status # "Disabled"
        /\ lastOp'.decision.type \in {"null", "throw"})
          => /\ lastOp'.logged = <<"Error">>
             /\ drones'[lastOp'.id].status = "Idle"
             /\ drones'[lastOp'.id].targetId = Null]_vars

\* C22: the wait after failed attempt 1 is the delay the server suggests if the
\* error carries one, else 2000 ms, the wait after failed attempt 2 is 4000 ms, each
\* plus a jitter in [-500,+500] ms and then raised to at least 500 ms: every wait is
\* at least 500 ms, and with a suggested delay of 2 s the two waits lie in
\* [1500,2500] ms and [3500,4500] ms.
C22_BackoffWaits ==
    oracle.pc # "idle" =>
        /\ Len(oracle.waits) <= 2
        /\ \A i \in 1..Len(oracle.waits) :
              LET info == oracle.failures[i].retryInfo
                  base == IF i = 2 THEN 4000
                          ELSE IF info.unit = "s" THEN info.tenths * 100 ELSE 2000
              IN  /\ oracle.waits[i] >= 500
                  /\ oracle.waits[i] \in Max(500, base - 500)..Max(500, base + 500)
        /\ (Len(oracle.waits) >= 1 /\ oracle.failures[1].retryInfo = [unit |-> "s", tenths |-> 20])
              => oracle.waits[1] \in 1500..2500
        /\ Len(oracle.waits) = 2 => oracle.waits[2] \in 3500..4500

\* C22 witness: a call has waited twice, first on a suggested delay below the floor
\* and then 4000 ms with the largest jitter.
C22_Witness ==
    /\ oracle.pc # "idle"
    /\ Len(oracle.waits) = 2
    /\ oracle.failures[1].retryInfo = [unit |-> "s", tenths |-> 1]
    /\ oracle.waits[1] = 500
    /\ oracle.waits[2] = 4499

\* two agents attacking each other in range at health 5, nobody else attacking them
MutualDuel(world, a, b) ==
    /\ a # b
    /\ world[a].status = "Attacking" /\ world[a].targetId = b /\ world[a].health = 5
    /\ world[b].status = "Attacking" /\ world[b].targetId = a /\ world[b].health = 5
    /\ ~OutOfRange(world[a].position, world[b].position)
    /\ \A o \in Ids \ {a, b} :
          ~(world[o].status = "Attacking" /\ world[o].targetId \in {a, b})

DisabledStepAsClaimed(pre, id) ==
    LET post == ProcessDrone(pre, id) IN
    /\ pre[id].status = "Disabled" => post = pre
    /\ \A t \in Ids :
          pre[t].status = "Disabled"
              => /\ post[t].health = pre[t].health
                 /\ post[t].position = pre[t].position
                 /\ post[t].status = "Disabled"

MoveStepAsClaimed(before, after) ==
    LET unit == MoveGrid
        remaining == Abs(before.targetPosition.x - before.position.x)
                        + Abs(before.targetPosition.y - before.position.y)
        left == Abs(after.targetPosition.x - after.position.x)
                   + Abs(after.targetPosition.y - after.position.y)
    IN  /\ after.targetPosition = before.targetPosition
        /\ IF remaining >= unit
           THEN /\ after.status = "Moving"
                /\ left = remaining - unit
           ELSE /\ after.status = "Idle"
                /\ after.position = before.targetPosition

\* C24: a Moving agent that receives no new decision reaches its target position
\* exactly and becomes Idle after finitely many ticks: each tick it advances 1 unit
\* toward the target while the remaining distance is at least 1 unit, and when the
\* remaining distance is less than 1 unit its position is set to the target and its
\* status to Idle; it never overshoots the target and stays there once Idle.
C24_MovingArrives ==
    /\ [][lastOp'.op = "move" =>
             IF mover.status = "Moving" THEN MoveStepAsClaimed(mover, mover')
             ELSE mover' = mover]_vars
    /\ [](lastOp.op = "move" /\ lastOp.before.status = "Moving" /\ mover.status = "Idle"
             => tickCount = (Abs(mover.targetPosition.x - lastOp.start.x)
                               + Abs(mover.targetPosition.y - lastOp.start.y)) \div MoveGrid + 1)
    /\ <>[](mover.status = "Idle" /\ mover.position = mover.targetPosition)

\* C24 witness: after two whole steps the drone was half a unit short of its target,
\* and the tick has set it on the target and Idle.
C24_Witness ==
    /\ lastOp.op = "move"
    /\ tickCount = 3
    /\ lastOp.before.status = "Moving"
    /\ Abs(lastOp.before.targetPosition.x - lastOp.before.position.x)
          + Abs(lastOp.before.targetPosition.y - lastOp.before.position.y) \in 1..(MoveGrid - 1)
    /\ mover.status = "Idle"
    /\ mover.position = mover.targetPosition

\* a think cycle of the agent has just started
CycleStarted(id) == lastOp.op = "trigger" /\ lastOp.id = id /\ lastOp.started

\* C25: while the simulation stays Running and every backend invocation returns or
\* fails, every think cycle terminates, every completed attempt (success, failure,
\* discard or refusal) has set a new think timer for its agent, and every agent
\* that is not Disabled starts a new think cycle infinitely often.
C25_ThinkingLoopLive ==
    /\ [][(lastOp'.op = "settle" \/ (lastOp'.op = "trigger" /\ ~lastOp'.started))
             /\ simulationState' = "Running"
             => /\ pendingTimers'[lastOp'.id] >= 1
                /\ lastOp'.id \in droneThinkTimers']_vars
    /\ \A id \in Ids :
          /\ [](InFlightCount(id) > 0
                   => <>(InFlightCount(id) = 0 /\ id \notin thinkingDrones))
          /\ []<>(\/ simulationState # "Running"
                  \/ drones[id].status = "Disabled"
                  \/ CycleStarted(id))

\* C25 witness: an agent whose cycle was discarded because a tick disabled it during
\* the call has a think timer again, while another agent has started its cycle.
C25_Witness ==
    /\ lastOp.op = "settle" /\ lastOp.stale /\ ~lastOp.wrote
    /\ simulationState = "Running"
    /\ drones[lastOp.id].status = "Disabled"
    /\ pendingTimers[lastOp.id] = 1
    /\ \E d \in Ids \ {lastOp.id} : InFlightCount(d) = 1

\* the state the claim describes: Stopped, the initial rosters, the first principle,
\* only the reset notice in the log, no think timer pending, nothing in flight
ResetState ==
    /\ simulationState = "Stopped"
    /\ drones = createInitialSwarm
    /\ \A id \in Ids :
          /\ drones[id].status = "Idle" /\ drones[id].health = 100
          /\ drones[id].targetId = Null
          /\ drones[id].position = InitialDrone(SwarmOf(id), id[2]).position
    /\ currentPrinciple = ART_OF_WAR_PRINCIPLES[1]
    /\ logs = <<LogEntry("Info", "System", "Simulation reset")>>
    /\ \A id \in Ids : pendingTimers[id] = 0
    /\ thinkingDrones = {}

\* C26: a reset from any reachable state yields the same state (Stopped, both
\* swarms as created, the first principle, the log holding only the reset notice,
\* no think timer pending, the in-flight set empty), and this state does not change
\* until the next Start.
C26_ResetState ==
    [][/\ lastOp'.op = "reset" => ResetState'
       /\ (ResetState /\ lastOp'.op # "start") => ResetState']_vars

\* C27: in every reachable state an agent's health is 0 if and only if its status
\* is Disabled, and each roster holds the agent ids it held at the last reset.
C27_DisabledIffNoHealth ==
    /\ \A id \in Ids : drones[id].health = 0 <=> drones[id].status = "Disabled"
    /\ DOMAIN drones = DOMAIN createInitialSwarm
    /\ \A id \in DOMAIN drones : drones[id].swarmId = SwarmOf(id)

\* the step of the action loop that leaves a swarm without a non-Disabled agent
LastKill(k) ==
    /\ ~BattleOver(StepPre(k))
    /\ BattleOver(ProcessDrone(StepPre(k), TickOrder[k]))

\* C28: no reachable state has both swarms without a non-Disabled agent: in every
\* tick the agent that makes the last kill is not Disabled at the end of that tick,
\* so the swarm the victory entry names has a non-Disabled agent.
C28_NeverBothEliminated ==
    /\ Alive(drones, "blue") \/ Alive(drones, "red")
    /\ lastOp.op = "tick" =>
          /\ \A k \in Steps : LastKill(k) => drones[TickOrder[k]].status # "Disabled"
          /\ BattleOver(drones) =>
                /\ victoryLogs # <<>>
                /\ victoryLogs[Len(victoryLogs)] = "Blue Swarm" => Alive(drones, "blue")
                /\ victoryLogs[Len(victoryLogs)] = "Red Swarm" => Alive(drones, "red")

\* C28 witness: the last agents of the two swarms were attacking each other in range
\* at health 5, and the tick has disabled one of them and stopped the battle.
C28_Witness ==
    /\ lastOp.op = "tick"
    /\ BattleOver(drones)
    /\ \E k \in Steps :
          /\ LastKill(k)
          /\ MutualDuel(lastOp.before, TickOrder[k], lastOp.before[TickOrder[k]].targetId)
          /\ drones[TickOrder[k]].status = "Idle"
          /\ drones[TickOrder[k]].health = 5

\* the k-th step of the action loop took health only from the other swarm
DamageAcrossSwarms(k) ==
    LET pre == StepPre(k)
        post == ProcessDrone(pre, TickOrder[k])
    IN  \A t \in Ids :
            post[t].health < pre[t].health => SwarmOf(t) # SwarmOf(TickOrder[k])

\* C29: in every reachable state an agent with status Attacking has a targetId that
\* is not null and names an agent of the opposing swarm; no step of a tick takes
\* health from an agent of the attacker's own swarm or from the attacker.
C29_AttackOpposingSwarm ==
    /\ \A id \in Ids :
          drones[id].status = "Attacking"
              => /\ drones[id].targetId # Null
                 /\ drones[id].targetId \in Ids
                 /\ SwarmOf(drones[id].targetId) # SwarmOf(id)
    /\ lastOp.op = "tick" => \A k \in Steps : DamageAcrossSwarms(k)

\* C29 witness: an Attack decision naming an agent of the own swarm has just been
\* refused, leaving the agent Idle, while an agent is Attacking the other swarm.
C29_Witness ==
    /\ lastOp.op = "settle" /\ lastOp.decision.type = "ATTACK"
    /\ lastOp.decision.target_id \in Ids
    /\ SwarmOf(lastOp.decision.target_id) = SwarmOf(lastOp.id)
    /\ drones[lastOp.decision.target_id].status # "Disabled"
    /\ lastOp.wrote
    /\ drones[lastOp.id].status = "Idle"
    /\ \E a \in Ids : drones[a].status = "Attacking"

====
